---------------------------- MODULE Spec2Model ----------------------------
(***************************************************************************)
(* Model of src/data/generate_mock_polygons.py: the batch generator        *)
(* generate_mock_polygons, the per-polygon retry loop of                   *)
(* generate_random_polygon, the wrap check and the three rasterizers.      *)
(*                                                                         *)
(* Floats are fixed-point integers: degrees and kilometres in 1/Scale,     *)
(* radians and cosines in 1/TrigScale, every float operation rounded to    *)
(* the nearest representable value (RoundDiv).  A draw of random.random()  *)
(* is a numerator u over DrawDen.                                          *)
(***************************************************************************)
EXTENDS Integers, Sequences, FiniteSets, TLC

(* ------------------------------ bounds --------------------------------- *)

\* largest count a caller passes
MaxCount == 2

\* largest vertex bound a caller passes
MaxVertices == 4

\* resolution of one draw of the random stream: u / DrawDen, u in 0..DrawDen
DrawDen == 64

\* number of seeds the reproducibility runs start from
NumSeeds == 4

\* spacing of the grid of draws the n-gon runs take their candidates from
GridStep == 8

(* ------------------------- program constants --------------------------- *)

max_attempts == 100

PoleBound == 85

DatelineBound == 180

KmPerDegree == 111

CircleNumPoints == 64

OvalNumPoints == 64

(* --------------------------- float model ------------------------------- *)

\* degrees and kilometres are kept in hundredths
Scale == 100

\* radians, cosines and sines are kept in thousandths
TrigScale == 1000

\* math.pi in thousandths
PiFx == 3142

Abs(a) == IF a < 0 THEN -a ELSE a

\* a / b rounded to the nearest integer (b > 0)
RoundDiv(a, b) == (2 * a + b) \div (2 * b)

\* math.radians(d): d in 1/Scale degrees, result in 1/TrigScale radians
Radians(d) == RoundDiv(d * PiFx, 180 * Scale)

\* cos on [0, pi/2]: 1 - z/2 (1 - z/12 (1 - z/30 (1 - z/56))), z = x^2
CosPoly(x) ==
    LET z  == RoundDiv(x * x, TrigScale)
        t1 == TrigScale - RoundDiv(z * TrigScale, 56 * TrigScale)
        t2 == TrigScale - RoundDiv(z * t1, 30 * TrigScale)
        t3 == TrigScale - RoundDiv(z * t2, 12 * TrigScale)
    IN  TrigScale - RoundDiv(z * t3, 2 * TrigScale)

\* math.cos(x), x in 1/TrigScale radians, result in 1/TrigScale
Cos(x) ==
    LET y == Abs(x) % (2 * PiFx)
    IN  IF 2 * y <= PiFx THEN CosPoly(y)
        ELSE IF y <= PiFx THEN -CosPoly(PiFx - y)
        ELSE IF 2 * y <= 3 * PiFx THEN -CosPoly(y - PiFx)
        ELSE CosPoly(2 * PiFx - y)

\* math.sin(x) = cos(x - pi/2)
Sin(x) == Cos(x - RoundDiv(PiFx, 2))

\* r * c for a radius r (1/Scale) and a cosine or sine c (1/TrigScale)
MulTrig(r, c) == RoundDiv(r * c, TrigScale)

(* --------------------------- random stream ----------------------------- *)

\* random.uniform(a, b) = a + (b - a) * random(), the draw being u / DrawDen
Uniform(a, b, u) == a + RoundDiv((b - a) * u, DrawDen)

\* random.choice(seq): the element at floor(random() * len(seq)), 1-based here
ChoiceIndex(n, u) == ((u * n) \div DrawDen) + 1

\* the generator behind the random module: its next state
Advance(s) == (5 * s + 3) % DrawDen

\* the k-th next draw (k = 0, 1, 2) of a stream in state s
Draw(s, k) == IF k = 0 THEN s ELSE IF k = 1 THEN Advance(s) ELSE Advance(Advance(s))

\* the state of a stream after k draws (k = 0 .. 3)
Skip(s, k) ==
    IF k = 0 THEN s
    ELSE IF k = 1 THEN Advance(s)
    ELSE IF k = 2 THEN Advance(Advance(s))
    ELSE Advance(Advance(Advance(s)))

(* --------------------------- pure functions ---------------------------- *)

\* lines 34-42: the sampled centre, size and angular radii of one attempt
Candidate(p, u1, u2, u3) ==
    LET center_lat == Uniform(-PoleBound * Scale, PoleBound * Scale, u1)
        center_lon == Uniform(-DatelineBound * Scale, DatelineBound * Scale, u2)
        size_km    == Uniform(p.min_size_km * Scale, p.max_size_km * Scale, u3)
    IN  [center_lat |-> center_lat,
         center_lon |-> center_lon,
         lat_radius |-> RoundDiv(size_km, KmPerDegree),
         lon_radius |-> RoundDiv(size_km * TrigScale,
                                 KmPerDegree * Cos(Radians(center_lat)))]

\* the wrap check without its dateline half
_would_wrap_poles_only(center_lat, center_lon, lat_radius, lon_radius) ==
    IF \/ center_lat + lat_radius > PoleBound * Scale
       \/ center_lat - lat_radius < -PoleBound * Scale
    THEN TRUE
    ELSE FALSE

_would_wrap(center_lat, center_lon, lat_radius, lon_radius) ==
    IF \/ center_lat + lat_radius > PoleBound * Scale
       \/ center_lat - lat_radius < -PoleBound * Scale
    THEN TRUE
    ELSE IF \/ center_lon + lon_radius > DatelineBound * Scale
            \/ center_lon - lon_radius < -DatelineBound * Scale
    THEN TRUE
    ELSE FALSE

\* angle = (2 * math.pi * i) / n
Angle(i, n) == RoundDiv(2 * PiFx * i, n)

\* the ring without the closing coordinates.append(coordinates[0])
EllipseOpen(center_lat, center_lon, rx, ry, n) ==
    [j \in 1..n |->
       <<center_lon + MulTrig(rx, Cos(Angle(j - 1, n))),
         center_lat + MulTrig(ry, Sin(Angle(j - 1, n)))>>]

\* the ring of n points on the ellipse with radii rx (longitude) and ry
\* (latitude), followed by coordinates[0]; each point is <<lon, lat>>
Ellipse(center_lat, center_lon, rx, ry, n) ==
    LET pts == [j \in 1..n |->
                  <<center_lon + MulTrig(rx, Cos(Angle(j - 1, n))),
                    center_lat + MulTrig(ry, Sin(Angle(j - 1, n)))>>]
    IN  Append(pts, pts[1])

\* _create_ngon reads coordinates[0] of an empty list when sides < 1
NgonRaises(sides) == sides < 1

\* the n-gon with range(sides + 1) for range(sides)
_create_ngon_extra(center_lat, center_lon, lat_radius, lon_radius, sides) ==
    Ellipse(center_lat, center_lon, lon_radius, lat_radius, sides + 1)

\* the n-gon with the two radii swapped
_create_ngon_swapped(center_lat, center_lon, lat_radius, lon_radius, sides) ==
    Ellipse(center_lat, center_lon, lat_radius, lon_radius, sides)

_create_ngon(center_lat, center_lon, lat_radius, lon_radius, sides) ==
    Ellipse(center_lat, center_lon, lon_radius, lat_radius, sides)

_create_circle(center_lat, center_lon, lat_radius, lon_radius) ==
    LET avg_radius == RoundDiv(lat_radius + lon_radius, 2)
    IN  Ellipse(center_lat, center_lon, avg_radius, avg_radius, CircleNumPoints)

\* orientation is the value of random.choice([0, 1])
_create_oval(center_lat, center_lon, lat_radius, lon_radius, orientation) ==
    IF orientation = 0
    THEN Ellipse(center_lat, center_lon,
                 RoundDiv(lon_radius * 15, 10), RoundDiv(lat_radius * 7, 10),
                 OvalNumPoints)
    ELSE Ellipse(center_lat, center_lon,
                 RoundDiv(lon_radius * 7, 10), RoundDiv(lat_radius * 15, 10),
                 OvalNumPoints)

\* the list of shape choices with the circle added whatever the flag says
ShapeTypesAlwaysCircle(p) ==
    LET k == p.max_vertices - p.min_vertices + 1
        ngons == IF k > 0
                 THEN [j \in 1..k |-> <<"ngon", p.min_vertices + j - 1>>]
                 ELSE << >>
        ovals == IF p.include_ovals THEN << <<"oval", 0>> >> ELSE << >>
    IN  ngons \o << <<"circle", 0>> >> \o ovals

\* lines 49-59: the list of available shape choices
ShapeTypes(p) ==
    LET k == p.max_vertices - p.min_vertices + 1
        ngons == IF k > 0
                 THEN [j \in 1..k |-> <<"ngon", p.min_vertices + j - 1>>]
                 ELSE << >>
        circles == IF p.include_circles THEN << <<"circle", 0>> >> ELSE << >>
        ovals == IF p.include_ovals THEN << <<"oval", 0>> >> ELSE << >>
    IN  ngons \o circles \o ovals

\* f"{shape_param}-gon"
NgonTag(k) == ToString(k) \o "-gon"

\* lines 228-238
Feature(id, coordinates, shape_type) ==
    [type |-> "Feature",
     geometry |-> [type |-> "Polygon", coordinates |-> coordinates],
     properties |-> [id |-> id, shape |-> shape_type]]

\* lines 241-244
FeatureCollection(fs) == [type |-> "FeatureCollection", features |-> fs]


(* ------------------------------- state --------------------------------- *)

VARIABLES
    params,     \* the arguments of generate_mock_polygons
    pc,         \* "call", "loop", "sample", "select", "returned", "raised"
    i,          \* the batch loop's index
    attempt,    \* the retry loop's index
    cand,       \* the candidate that passed the wrap check, or NoCand
    features,   \* the list of features built so far
    result,     \* the returned feature collection, or None
    error,      \* the exception that ended the call, or "none"
    rng,        \* the state of the random stream
    seed,       \* the state the stream was seeded with
    first       \* the outcome of the first of two seeded runs, or NoRun

vars == <<params, pc, i, attempt, cand, features, result, error, rng, seed, first>>

None == [type |-> "None"]

NoCand == [center_lat |-> 0, center_lon |-> 0, lat_radius |-> -1, lon_radius |-> -1]

NoRun == [pc |-> "none"]

(* ------------------------------ inputs --------------------------------- *)

Counts == -1 .. MaxCount

SizesKm == {315, 9500}

VertexCounts == {0, MaxVertices}

Params ==
    [count : Counts,
     min_size_km : SizesKm, max_size_km : SizesKm,
     min_vertices : VertexCounts, max_vertices : VertexCounts,
     include_circles : BOOLEAN, include_ovals : BOOLEAN]

\* draws of random.uniform(-85, 85): -85 and a latitude near the pole bound
LatDraws == {0, DrawDen - 2}

\* draws of random.uniform(-180, 180): a longitude near the dateline and 180
LonDraws == {DrawDen - 3, DrawDen}

\* draws of random.uniform(min_size_km, max_size_km): both ends
SizeDraws == {0, DrawDen}

\* draws of random.choice(shape_types): one per eighth of [0, 1)
ShapeDraws == {(k * DrawDen) \div 8 : k \in 0..7}

\* draws of random.choice([0, 1])
OrientDraws == {0, DrawDen \div 2}

\* a grid of draws: every GridStep-th, and the ones next to both ends
Grid == {k \in 0..DrawDen : k % GridStep = 0} \cup {2, 3, DrawDen - 3, DrawDen - 2}

GridLatDraws == Grid

GridLonDraws == Grid

GridSizeDraws == {0, DrawDen \div 2, DrawDen}

Seeds == 0 .. (NumSeeds - 1)

(* ------------------------------ actions -------------------------------- *)

RunInit ==
    /\ pc = "call"
    /\ i = 0
    /\ attempt = 0
    /\ cand = NoCand
    /\ features = << >>
    /\ result = None
    /\ error = "none"

Init ==
    /\ params \in Params
    /\ RunInit
    /\ rng = 0
    /\ seed = 0
    /\ first = NoRun

\* line 216: features = []
Call ==
    /\ pc = "call"
    /\ pc' = "loop"
    /\ features' = << >>
    /\ i' = 0
    /\ UNCHANGED <<params, attempt, cand, result, error, rng, seed, first>>

\* line 218, lines 31-32 and lines 241-244: the head of the batch loop
LoopTest ==
    /\ pc = "loop"
    /\ IF i < params.count
       THEN /\ pc' = "sample"
            /\ attempt' = 0
            /\ result' = result
       ELSE /\ pc' = "returned"
            /\ result' = FeatureCollection(features)
            /\ attempt' = attempt
    /\ UNCHANGED <<params, i, cand, features, error, rng, seed, first>>

\* lines 32-46: one iteration of the retry loop up to the wrap check; the loop
\* index is not read again once a candidate is accepted
Sample(u1, u2, u3) ==
    /\ pc = "sample"
    /\ attempt < max_attempts
    /\ LET c == Candidate(params, u1, u2, u3)
       IN  IF _would_wrap(c.center_lat, c.center_lon, c.lat_radius, c.lon_radius)
           THEN /\ attempt' = attempt + 1
                /\ UNCHANGED <<pc, cand>>
           ELSE /\ pc' = "select"
                /\ cand' = c
                /\ attempt' = 0
    /\ UNCHANGED <<params, i, features, result, error, seed, first>>

\* the batch loop swallows the failure and returns what it has
PropagateReturnsPartial(e) ==
    /\ pc' = "returned"
    /\ error' = e
    /\ result' = FeatureCollection(features)
    /\ UNCHANGED <<i, features>>

\* an exception raised inside generate_random_polygon leaves
\* generate_mock_polygons: no except clause in lines 218-239
Propagate(e) ==
    /\ pc' = "raised"
    /\ error' = e
    /\ UNCHANGED <<i, features, result>>

\* lines 32 and 78-79: the retry loop ran out
Exhaust ==
    /\ pc = "sample"
    /\ attempt >= max_attempts
    /\ Propagate("RuntimeError")
    /\ UNCHANGED <<params, attempt, cand, rng, seed, first>>

\* the entry of shape_types that random.choice picks with draw us
ShapeChoice(p, us) == ShapeTypes(p)[ChoiceIndex(Len(ShapeTypes(p)), us)]

\* whether lines 62-73 raise: random.choice of an empty list, coordinates[0]
\* of an empty list
SelectRaises(p, us) ==
    \/ Len(ShapeTypes(p)) = 0
    \/ /\ ShapeChoice(p, us)[1] = "ngon"
       /\ NgonRaises(ShapeChoice(p, us)[2])

\* lines 66-76: the ring and the tag of the chosen shape
Rasterize(c, choice, uo) ==
    IF choice[1] = "ngon"
    THEN [coordinates |-> _create_ngon(c.center_lat, c.center_lon,
                                       c.lat_radius, c.lon_radius, choice[2]),
          shape_type |-> NgonTag(choice[2])]
    ELSE IF choice[1] = "circle"
    THEN [coordinates |-> _create_circle(c.center_lat, c.center_lon,
                                         c.lat_radius, c.lon_radius),
          shape_type |-> "circle"]
    ELSE [coordinates |-> _create_oval(c.center_lat, c.center_lon,
                                       c.lat_radius, c.lon_radius,
                                       ChoiceIndex(2, uo) - 1),
          shape_type |-> "oval"]

\* the new feature with the loop index as its id
AppendFeatureZeroBased(fs, idx, poly) ==
    Append(fs, Feature(idx, <<poly.coordinates>>, poly.shape_type))

\* what the batch loop does with a polygon: lines 219-239
AppendFeature(fs, idx, poly) ==
    Append(fs, Feature(idx + 1, <<poly.coordinates>>, poly.shape_type))

\* lines 48-76 and 219-239: shape choice, rasterization, the new feature
Select(us, uo) ==
    /\ pc = "select"
    /\ IF SelectRaises(params, us)
       THEN Propagate("IndexError")
       ELSE /\ features' = AppendFeature(features, i,
                               Rasterize(cand, ShapeChoice(params, us), uo))
            /\ i' = i + 1
            /\ pc' = "loop"
            /\ UNCHANGED <<result, error>>
    /\ UNCHANGED <<params, attempt, cand, seed, first>>

\* the draws an attempt takes from the stream
SampleStream ==
    /\ Sample(Draw(rng, 0), Draw(rng, 1), Draw(rng, 2))
    /\ rng' = Skip(rng, 3)

\* how many draws lines 62-73 take: none when random.choice raises, one for
\* the shape, one more for the oval's orientation
SelectDraws(p, us) ==
    IF Len(ShapeTypes(p)) = 0 THEN 0
    ELSE IF ShapeChoice(p, us)[1] = "oval" THEN 2
    ELSE 1

\* the oval's orientation drawn from a source the seed does not reach
SelectUnseeded ==
    \E uo \in OrientDraws :
       /\ Select(Draw(rng, 0), uo)
       /\ rng' = Skip(rng, SelectDraws(params, Draw(rng, 0)))

SelectStream ==
    /\ Select(Draw(rng, 0), Draw(rng, 1))
    /\ rng' = Skip(rng, SelectDraws(params, Draw(rng, 0)))

\* the second run: same arguments, the stream seeded again
Rerun ==
    /\ pc \in {"returned", "raised"}
    /\ first = NoRun
    /\ first' = [pc |-> pc, error |-> error, result |-> result, rng |-> rng]
    /\ rng' = seed
    /\ pc' = "call"
    /\ i' = 0
    /\ attempt' = 0
    /\ cand' = NoCand
    /\ features' = << >>
    /\ result' = None
    /\ error' = "none"
    /\ UNCHANGED <<params, seed>>

(* --------------------------- specifications ---------------------------- *)

\* one call, every draw free
Next ==
    \/ Call
    \/ LoopTest
    \/ \E u1 \in LatDraws, u2 \in LonDraws, u3 \in SizeDraws :
          Sample(u1, u2, u3) /\ UNCHANGED rng
    \/ Exhaust
    \/ \E us \in ShapeDraws, uo \in OrientDraws :
          Select(us, uo) /\ UNCHANGED rng

Spec == Init /\ [][Next]_vars

\* a batch of one: a single call of generate_random_polygon
PolygonInit ==
    /\ Init
    /\ params.count = 1

\* the call runs to its end: nothing suspends it
FairSpec == PolygonInit /\ [][Next]_vars /\ WF_vars(Next)

\* a batch of one n-gon, the candidates drawn from a grid over the sphere
NgonInit ==
    /\ PolygonInit
    /\ ~params.include_circles
    /\ ~params.include_ovals

NgonNext ==
    \/ Call
    \/ LoopTest
    \/ \E u1 \in GridLatDraws, u2 \in GridLonDraws, u3 \in GridSizeDraws :
          Sample(u1, u2, u3) /\ UNCHANGED rng
    \/ Exhaust
    \/ \E us \in ShapeDraws, uo \in OrientDraws :
          Select(us, uo) /\ UNCHANGED rng

NgonSpec == NgonInit /\ [][NgonNext]_vars

DetInit ==
    /\ params \in Params
    /\ RunInit
    /\ seed \in Seeds
    /\ rng = seed
    /\ first = NoRun

\* two calls in sequence, each drawing from the stream seeded alike
DetNext ==
    \/ Call
    \/ LoopTest
    \/ SampleStream
    \/ Exhaust
    \/ SelectStream
    \/ Rerun

DetSpec == DetInit /\ [][DetNext]_vars

(* ------------------------------- claims -------------------------------- *)

Ended == pc \in {"returned", "raised"}

\* the ring of a feature
RingOf(f) == f.geometry.coordinates[1]

IsNgon(f) == f.properties.shape \notin {"circle", "oval"}

\* every point of the ring has |longitude| <= 180 and |latitude| <= 85
WithinEarthBounds(ring) ==
    \A k \in 1..Len(ring) :
       /\ Abs(ring[k][1]) <= DatelineBound * Scale
       /\ Abs(ring[k][2]) <= PoleBound * Scale

\* every point of the ring lies in the bounding box of candidate c
WithinBox(ring, c) ==
    \A k \in 1..Len(ring) :
       /\ Abs(ring[k][1] - c.center_lon) <= c.lon_radius
       /\ Abs(ring[k][2] - c.center_lat) <= c.lat_radius

\* the box of candidate c stays inside the pole and dateline bounds
BoxWithinEarthBounds(c) ==
    /\ c.center_lat + c.lat_radius <= PoleBound * Scale
    /\ c.center_lat - c.lat_radius >= -PoleBound * Scale
    /\ c.center_lon + c.lon_radius <= DatelineBound * Scale
    /\ c.center_lon - c.lon_radius >= -DatelineBound * Scale

\* arguments the specification calls invalid
InvalidParams(p) ==
    \/ p.min_size_km > p.max_size_km
    \/ p.min_vertices > p.max_vertices
    \/ p.count < 0
    \/ p.min_vertices < 3
    \/ p.max_vertices < 3

\* C1: every vertex of every feature of a returned collection has longitude
\* in [-180, 180] and latitude in [-85, 85], whatever its shape.
C1_VerticesWithinBounds ==
    pc = "returned" =>
       \A k \in 1..Len(result.features) :
          WithinEarthBounds(RingOf(result.features[k]))

\* C2: with invalid arguments the call samples no candidate and returns no
\* feature collection: it ends with an error before the batch loop runs.
C2_InvalidParamsRejected ==
    InvalidParams(params) =>
       /\ pc \notin {"sample", "select", "returned"}
       /\ result = None

\* C3: a call with count = N >= 0 that returns has exactly N features with
\* ids 1..N in list order and no error; the list grows in id order.
C3_CountAndIds ==
    /\ \A k \in 1..Len(features) : features[k].properties.id = k
    /\ (pc = "returned" /\ params.count >= 0) =>
          /\ error = "none"
          /\ result.type = "FeatureCollection"
          /\ Len(result.features) = params.count
          /\ \A k \in 1..params.count : result.features[k].properties.id = k

C3_Witness ==
    /\ pc = "returned"
    /\ params.count = MaxCount
    /\ Len(result.features) = MaxCount
    /\ result.features[MaxCount].properties.id = MaxCount

C3_WitnessEmpty ==
    /\ pc = "returned"
    /\ params.count = 0
    /\ result.features = << >>

\* C4: once the sampler is exhausted the call has ended with the error, no
\* feature collection is returned, and the batch loop never resumes.
C4_AllOrNothing ==
    /\ [](error = "RuntimeError" => (pc = "raised" /\ result = None))
    /\ [][(pc = "sample" /\ attempt = max_attempts) =>
            (pc' = "raised" /\ error' = "RuntimeError" /\ result' = None)]_vars
    /\ [][pc = "raised" => (pc' = "raised" /\ result' = None /\ error' = error)]_vars

C4_Witness ==
    /\ pc = "raised"
    /\ error = "RuntimeError"
    /\ Len(features) >= 1
    /\ result = None

\* C5: the first and the last point of every generated ring are identical.
C5_RingsClosed ==
    \A k \in 1..Len(features) :
       LET ring == RingOf(features[k])
       IN  /\ Len(ring) >= 1
           /\ ring[1] = ring[Len(ring)]

C5_Witness ==
    /\ pc = "returned"
    /\ Len(result.features) = 2
    /\ result.features[1].properties.shape = "oval"
    /\ result.features[2].properties.shape = NgonTag(MaxVertices)
    /\ RingOf(result.features[1])[1] # RingOf(result.features[1])[2]

\* the shape tags the arguments enable
EnabledTags(p) ==
    {NgonTag(k) : k \in p.min_vertices .. p.max_vertices}
       \cup (IF p.include_circles THEN {"circle"} ELSE {})
       \cup (IF p.include_ovals THEN {"oval"} ELSE {})

\* C6: the shape tag of every generated feature is one the arguments enable.
C6_ShapeTagEnabled ==
    \A k \in 1..Len(features) :
       features[k].properties.shape \in EnabledTags(params)

C6_Witness ==
    /\ pc = "returned"
    /\ ~params.include_circles
    /\ ~params.include_ovals
    /\ params.min_vertices < params.max_vertices
    /\ Len(result.features) = 2
    /\ result.features[1].properties.shape # result.features[2].properties.shape

\* C7: a feature tagged "<k>-gon" has a ring of k+1 points, a circle or an
\* oval a ring of 65 points; every geometry holds exactly one ring.
C7_RingLength ==
    \A k \in 1..Len(features) :
       LET f == features[k]
       IN  /\ Len(f.geometry.coordinates) = 1
           /\ \A n \in 0..MaxVertices :
                 f.properties.shape = NgonTag(n) => Len(RingOf(f)) = n + 1
           /\ f.properties.shape \in {"circle", "oval"} => Len(RingOf(f)) = 65
           /\ \/ f.properties.shape \in {"circle", "oval"}
              \/ \E n \in 0..MaxVertices : f.properties.shape = NgonTag(n)

C7_Witness ==
    /\ pc = "returned"
    /\ Len(result.features) = 2
    /\ result.features[1].properties.shape = NgonTag(3)
    /\ Len(RingOf(result.features[1])) = 4
    /\ result.features[2].properties.shape = "circle"
    /\ Len(RingOf(result.features[2])) = 65

C8_WitnessFailure ==
    /\ first # NoRun
    /\ pc = "raised"
    /\ error = "RuntimeError"

\* C9: at most 100 candidates are sampled for a polygon; only a candidate
\* whose box stays inside the bounds reaches shape selection; every rejected
\* candidate uses up one attempt; the exhaustion error is raised exactly
\* when 100 were rejected; the retry loop always ends, with a candidate for
\* the rasterizer or with the error.
C9_RetryLoop ==
    /\ [](attempt <= max_attempts)
    /\ [](pc = "select" => (cand # NoCand /\ BoxWithinEarthBounds(cand)))
    /\ [](error = "RuntimeError" => attempt = max_attempts)
    /\ [][(pc = "sample" /\ pc' = "sample") => attempt' = attempt + 1]_vars
    /\ [][(pc = "sample" /\ attempt < max_attempts) => pc' \in {"sample", "select"}]_vars
    /\ [][(pc = "sample" /\ attempt = max_attempts) => pc' = "raised"]_vars
    /\ [][features' # features => (pc = "select" /\ pc' = "loop")]_vars
    /\ (pc = "sample") ~> (pc \in {"select", "raised"})
    /\ (pc = "select") ~> (pc \in {"loop", "raised"})

C9_Witness ==
    /\ pc = "select"
    /\ cand # NoCand
    /\ BoxWithinEarthBounds(cand)

C9_WitnessExhausted ==
    /\ pc = "raised"
    /\ error = "RuntimeError"
    /\ attempt = max_attempts
    /\ i = 0

\* C10: every vertex of an n-gon ring lies in the bounding box of the
\* candidate it was built from, and so inside the 85 and 180 degree bounds,
\* for every vertex count k >= 1.
C10_NgonWithinBox ==
    /\ \A k \in 1..Len(features) :
          IsNgon(features[k]) => WithinEarthBounds(RingOf(features[k]))
    /\ (pc \in {"loop", "sample", "returned"} /\ Len(features) > 0
           /\ IsNgon(features[Len(features)])) =>
          WithinBox(RingOf(features[Len(features)]), cand)

\* a triangle next to the pole bound that reaches the edge of its box
C10_Witness ==
    /\ pc = "returned"
    /\ Len(result.features) = 1
    /\ result.features[1].properties.shape = NgonTag(3)
    /\ cand.center_lat + cand.lat_radius > (PoleBound - 5) * Scale
    /\ RingOf(result.features[1])[1][1] = cand.center_lon + cand.lon_radius

\* a polygon of one vertex
C10_WitnessOneVertex ==
    /\ pc = "returned"
    /\ Len(result.features) = 1
    /\ result.features[1].properties.shape = NgonTag(1)

=============================================================================
